---- MODULE Spec2Model ----
(***************************************************************************)
(* Model of the GameLobby Durable Object (the session lobby coordinator)   *)
(* and of the pure game logic it calls (scoring, ranking, answer check).   *)
(*                                                                         *)
(* The object is single-threaded: a handler runs without interleaving up   *)
(* to its next timer-based await (the countdown delay of startGame, the    *)
(* inter-round delay of endRound).  Awaits on storage do not admit other   *)
(* events (Durable Object input gates), so every action below is one       *)
(* handler run from its entry, or from a timer resumption, to its next     *)
(* suspension or its end.                                                  *)
(*                                                                         *)
(* Strings that the code inspects (answers, country names) are sequences   *)
(* of one-character strings; scores are in hundredths of a point so that   *)
(* the real-valued 100 - responseTimeMs/100 stays exact.                   *)
(***************************************************************************)
EXTENDS Integers, Sequences, FiniteSets, TLC

\* ------------------------------------------------------------------ bounds
\* Date.now() when a round starts, in ms
EpochMs == 1000
\* time after the start of its round at which a late answer is received, in ms
LateMs == 5000
\* WebSocket handles that may be created in one run
MaxHandles == 2
\* calls of initialize in one run
MaxInits == 2
\* round timers that may be created in one run
MaxTimers == 3
\* game events kept in the log
MaxLog == 12
\* players of a roster given to calculateLeaderboard
MaxRoster == 5
\* response times given to calculateScore: from MaxSkewSteps half seconds
\* before the start of the round to MaxLateSteps half seconds after it
MaxSkewSteps == 2
MaxLateSteps == 32
\* handles of a registry given to broadcast
MaxSockets == 3

\* --------------------------------------------------------- program constants
\* initial value of gameState.totalRounds
TotalRounds == 3
\* first value of the countdown loop in startGame
CountdownFrom == 3
\* calculateScore: base score and maximal speed bonus, in hundredths
BaseScore == 10000
MaxBonus == 10000

\* ------------------------------------------------------------- input domains
Ids == {"p1", "p2"}
\* the identity that creates lobbies, and the identities that open sockets
HostIds == {"p1"}
ConnectIds == {"p2"}
\* the display names given to initialize and to join
HostNames == {"Ann"}
JoinNames == {"Bob"}
Whitespace == {" ", "\t", "\n"}
\* the answers players submit: the text, and the time since the round's start
\* at which it is received
Submissions ==
  { [answer |-> <<" ", "f", "r", "a">>, elapsed |-> LateMs],
    [answer |-> <<"C", "a", "n", "a", "d", "a">>, elapsed |-> 0] }

\* the list of countries (one of the entries of the source list)
countries ==
  << [name |-> <<"F", "r", "a", "n", "c", "e">>, code |-> "fr",
      alternate_names |-> << <<"F", "R", "A">> >>] >>

\* ------------------------------------------------------------------- strings
toLowerCaseChar(c) ==
  CASE c = "A" -> "a" [] c = "C" -> "c" [] c = "D" -> "d" [] c = "E" -> "e"
    [] c = "F" -> "f" [] c = "N" -> "n" [] c = "R" -> "r"
    [] OTHER -> c

toLowerCase(str) == [i \in 1..Len(str) |-> toLowerCaseChar(str[i])]

RECURSIVE trimStart(_)
trimStart(str) ==
  IF str # <<>> /\ Head(str) \in Whitespace THEN trimStart(Tail(str)) ELSE str

RECURSIVE trimEnd(_)
trimEnd(str) ==
  IF str # <<>> /\ str[Len(str)] \in Whitespace
  THEN trimEnd(SubSeq(str, 1, Len(str) - 1))
  ELSE str

trim(str) == trimEnd(trimStart(str))

\* ----------------------------------------------------------------- flags.ts
\* country.alternate_names || []
alternateNames(country) ==
  IF "alternate_names" \in DOMAIN country THEN country.alternate_names ELSE <<>>

\* mutant of isAnswerCorrect: an answer that begins an accepted name is correct
isAnswerCorrect_startsWith(answer, country) ==
  LET normalizedAnswer == toLowerCase(trim(answer))
      starts(name) == /\ Len(normalizedAnswer) <= Len(name)
                      /\ normalizedAnswer = SubSeq(name, 1, Len(normalizedAnswer))
  IN  \/ starts(toLowerCase(trim(country.name)))
      \/ \E i \in 1..Len(alternateNames(country)) :
           starts(toLowerCase(trim(alternateNames(country)[i])))

isAnswerCorrect(answer, country) ==
  LET normalizedAnswer == toLowerCase(trim(answer))
      normalizedCountryName == toLowerCase(trim(country.name))
  IN  \/ normalizedAnswer = normalizedCountryName
      \/ \E i \in 1..Len(alternateNames(country)) :
           normalizedAnswer = toLowerCase(trim(alternateNames(country)[i]))

\* -------------------------------------------------------------- game-logic.ts
Max(a, b) == IF a >= b THEN a ELSE b

\* mutant of calculateScore: the bonus is not floored at 0
calculateScore_noFloor(isCorrect, responseTimeMs) ==
  IF ~isCorrect THEN 0
  ELSE BaseScore + (MaxBonus - responseTimeMs)

\* result in hundredths of a point: 100 * (100 + max(0, 100 - ms/100))
calculateScore(isCorrect, responseTimeMs) ==
  IF ~isCorrect THEN 0
  ELSE LET speedBonus == Max(0, MaxBonus - responseTimeMs)
       IN  BaseScore + speedBonus

\* mutant of evaluateRound: wrong answers get no entry
RECURSIVE evaluateRound_onlyCorrect(_, _, _)
evaluateRound_onlyCorrect(answers, correctCountry, roundStartTime) ==
  IF answers = <<>> THEN <<>>
  ELSE LET isCorrect == isAnswerCorrect(Head(answers).answer, correctCountry)
           score == calculateScore(isCorrect, Head(answers).timestamp - roundStartTime)
           rest == evaluateRound_onlyCorrect(Tail(answers), correctCountry, roundStartTime)
       IN  IF isCorrect
           THEN <<[playerId |-> Head(answers).playerId, roundScore |-> score,
                   totalScore |-> score, isCorrect |-> isCorrect]>> \o rest
           ELSE rest

evaluateRound(answers, correctCountry, roundStartTime) ==
  [i \in 1..Len(answers) |->
     LET isCorrect == isAnswerCorrect(answers[i].answer, correctCountry)
         responseTimeMs == answers[i].timestamp - roundStartTime
         score == calculateScore(isCorrect, responseTimeMs)
     IN  [playerId |-> answers[i].playerId, roundScore |-> score,
          totalScore |-> score, isCorrect |-> isCorrect]]

\* Array.prototype.sort with (a, b) => b.totalScore - a.totalScore: stable,
\* descending; insertion of e behind every entry that is not smaller
\* mutant of insertSorted: e goes before the entries with an equal total
RECURSIVE insertSorted_beforeEqual(_, _)
insertSorted_beforeEqual(sorted, e) ==
  IF sorted = <<>> THEN <<e>>
  ELSE IF Head(sorted).totalScore > e.totalScore
       THEN <<Head(sorted)>> \o insertSorted_beforeEqual(Tail(sorted), e)
       ELSE <<e>> \o sorted

RECURSIVE insertSorted(_, _)
insertSorted(sorted, e) ==
  IF sorted = <<>> THEN <<e>>
  ELSE IF Head(sorted).totalScore >= e.totalScore
       THEN <<Head(sorted)>> \o insertSorted(Tail(sorted), e)
       ELSE <<e>> \o sorted

RECURSIVE sortByTotalScore(_)
sortByTotalScore(arr) ==
  IF arr = <<>> THEN <<>>
  ELSE insertSorted(sortByTotalScore(SubSeq(arr, 1, Len(arr) - 1)), arr[Len(arr)])

\* mutant of rankAt: the rank is the position, ties or not
rankAt_position(arr, i) == i

\* the rank loop: rank i of the sorted array given the ranks before it
RECURSIVE rankAt(_, _)
rankAt(arr, i) ==
  IF i > 1 /\ arr[i].totalScore = arr[i - 1].totalScore
  THEN rankAt(arr, i - 1)
  ELSE i

calculateLeaderboard(players) ==
  LET playersArray ==
        [i \in 1..Len(players) |->
           [playerId |-> players[i].id, playerName |-> players[i].name,
            totalScore |-> players[i].totalScore, rank |-> 0]]
      sorted == sortByTotalScore(playersArray)
  IN  [i \in 1..Len(sorted) |-> [sorted[i] EXCEPT !.rank = rankAt(sorted, i)]]


\* ===================================================================== state
VARIABLES
  players,        \* this.players: Map in insertion order, a sequence of Player
  webSockets,     \* this.webSockets: playerId -> handle, NoHandle when absent
  gameState,      \* this.gameState
  roundTimeoutId, \* this.roundTimeoutId, NoTimer for null
  storage,        \* this.ctx.storage
  timers,         \* ids of the setTimeout round timers not yet fired or cleared
  nextTimer,      \* id the next setTimeout returns
  accepted,       \* sockets accepted by ctx.acceptWebSocket and not yet closed
  nextHandle,     \* handle of the next WebSocketPair
  startTasks,     \* loop counters i of the startGame calls suspended in the countdown delay
  delayTasks,     \* number of endRound calls suspended in the inter-round delay
  log,            \* game events broadcast so far, in issue order
  call,           \* a call of a function of the game logic: its name and arguments
  ret             \* whether the call has returned, and the value it returned

vars == <<players, webSockets, gameState, roundTimeoutId, storage, timers,
          nextTimer, accepted, nextHandle, startTasks, delayTasks, log,
          call, ret>>

NoHandle == 0
NoTimer == 0
NoId == ""

\* no call of the game logic is under way
NoCall == [fn |-> "none"]
NotReturned == [done |-> FALSE]

\* currentRound: null
Null == [number |-> 0, country |-> countries[1], startTime |-> 0, answers |-> <<>>]

GameEvents == {"countdown", "flag", "round_result", "game_ended"}

\* the object's fields and its environment as one value
S == [players |-> players, webSockets |-> webSockets, gameState |-> gameState,
      roundTimeoutId |-> roundTimeoutId, storage |-> storage, timers |-> timers,
      nextTimer |-> nextTimer, accepted |-> accepted, nextHandle |-> nextHandle,
      startTasks |-> startTasks, delayTasks |-> delayTasks,
      log |-> log]

\* the state s is evaluated once, as the value of r
Commit(s) ==
  \E r \in {s} :
    /\ players' = r.players
    /\ webSockets' = r.webSockets
    /\ gameState' = r.gameState
    /\ roundTimeoutId' = r.roundTimeoutId
    /\ storage' = r.storage
    /\ timers' = r.timers
    /\ nextTimer' = r.nextTimer
    /\ accepted' = r.accepted
    /\ nextHandle' = r.nextHandle
    /\ startTasks' = r.startTasks
    /\ delayTasks' = r.delayTasks
    /\ log' = r.log
    /\ UNCHANGED <<call, ret>>

\* ---------------------------------------------------------------- Map helpers
indexOf(map, id) ==
  IF \E i \in 1..Len(map) : map[i].id = id
  THEN CHOOSE i \in 1..Len(map) : map[i].id = id
  ELSE 0

has(map, id) == indexOf(map, id) # 0

get(map, id) == map[indexOf(map, id)]

\* mutant of mapSet: a new key takes the place of the last entry
mapSet_overwritesLast(map, id, value) ==
  IF has(map, id) THEN [map EXCEPT ![indexOf(map, id)] = value]
  ELSE IF map = <<>> THEN <<value>>
  ELSE [map EXCEPT ![Len(map)] = value]

\* Map.prototype.set: a known key keeps its position, a new key goes last
mapSet(map, id, value) ==
  IF has(map, id) THEN [map EXCEPT ![indexOf(map, id)] = value]
  ELSE Append(map, value)

answersHas(answers, playerId) ==
  \E i \in 1..Len(answers) : answers[i].playerId = playerId

\* removal of one element of a sequence
RemoveAt(seq, i) == SubSeq(seq, 1, i - 1) \o SubSeq(seq, i + 1, Len(seq))

\* ------------------------------------------------------------------ GameLobby
\* JSON.stringify(this.gameState): the answers Map serializes as {}
JSONstringify(gs) ==
  IF gs.currentRound = Null THEN gs
  ELSE [gs EXCEPT !.currentRound.answers = <<>>]

saveState(s) ==
  [s EXCEPT !.storage.keys = @ \cup {"players", "gameState"},
            !.storage.players = s.players,
            !.storage.gameState = JSONstringify(s.gameState)]

\* mutant of broadcast: the event overtakes the events issued before it
broadcast_overtakes(s, message) ==
  LET entry == [type |-> message.type,
                round |-> s.gameState.currentRound.number,
                count |-> IF message.type = "countdown" THEN message.data.count ELSE 0]
  IN  [s EXCEPT !.log = IF message.type \in GameEvents THEN <<entry>> \o @ ELSE @]

broadcast(s, message) ==
  LET entry == [type |-> message.type,
                round |-> s.gameState.currentRound.number,
                count |-> IF message.type = "countdown" THEN message.data.count ELSE 0]
  IN  [s EXCEPT !.log = IF message.type \in GameEvents THEN Append(@, entry) ELSE @]

isInitialized(s) == "lobbyId" \in s.storage.keys

initialize(s, hostId, hostName) ==
  LET s1 == [s EXCEPT !.storage.keys = @ \cup {"lobbyId", "invitationCode", "hostId"},
                      !.storage.lobbyId = @ + 1,
                      !.storage.hostId = hostId]
      s2 == [s1 EXCEPT !.players = mapSet(@, hostId,
                 [id |-> hostId, name |-> hostName, connected |-> FALSE, totalScore |-> 0])]
  IN  saveState(s2)

\* mutant of addPlayer: a join abandons the suspended calls
addPlayer_abandonsWaits(s, playerId, playerName) ==
  LET player == [id |-> playerId, name |-> playerName, connected |-> FALSE, totalScore |-> 0]
      s1 == [s EXCEPT !.players = mapSet(@, playerId, player),
                      !.startTasks = <<>>, !.delayTasks = 0]
      s2 == saveState(s1)
  IN  broadcast(s2, [type |-> "player_joined",
                     data |-> [playerId |-> playerId, playerName |-> playerName]])

addPlayer(s, playerId, playerName) ==
  LET player == [id |-> playerId, name |-> playerName, connected |-> FALSE, totalScore |-> 0]
      s1 == [s EXCEPT !.players = mapSet(@, playerId, player)]
      s2 == saveState(s1)
  IN  broadcast(s2, [type |-> "player_joined",
                     data |-> [playerId |-> playerId, playerName |-> playerName]])

handleWebSocketUpgrade(s, playerId) ==
  IF playerId = NoId THEN [state |-> s, response |-> [status |-> 400]]
  ELSE
    LET server == s.nextHandle
        s1 == [s EXCEPT !.nextHandle = @ + 1,
                        !.accepted = @ \cup {[handle |-> server, tag |-> playerId]},
                        !.webSockets[playerId] = server]
        s2 == IF has(s1.players, playerId)
              THEN [s1 EXCEPT !.players[indexOf(s1.players, playerId)].connected = TRUE]
              ELSE s1
        s3 == saveState(s2)
        s4 == broadcast(s3, [type |-> "player_connected", data |-> [playerId |-> playerId]])
    IN  [state |-> s4, response |-> [status |-> 101]]

\* mutant of webSocketClose: the player leaves the roster
webSocketClose_dropsPlayer(s, ws) ==
  LET playerId == ws.tag
      s0 == [s EXCEPT !.accepted = @ \ {ws}]
      s1 == IF has(s0.players, playerId)
            THEN [s0 EXCEPT !.players = RemoveAt(@, indexOf(s0.players, playerId))]
            ELSE s0
      s2 == [s1 EXCEPT !.webSockets[playerId] = NoHandle]
      s3 == saveState(s2)
  IN  broadcast(s3, [type |-> "player_disconnected", data |-> [playerId |-> playerId]])

\* mutant of webSocketClose: the handle stays in the registry
webSocketClose_keepsHandle(s, ws) ==
  LET playerId == ws.tag
      s0 == [s EXCEPT !.accepted = @ \ {ws}]
      s1 == IF has(s0.players, playerId)
            THEN [s0 EXCEPT !.players[indexOf(s0.players, playerId)].connected = FALSE]
            ELSE s0
      s3 == saveState(s1)
  IN  broadcast(s3, [type |-> "player_disconnected", data |-> [playerId |-> playerId]])

webSocketClose(s, ws) ==
  LET playerId == ws.tag
      s0 == [s EXCEPT !.accepted = @ \ {ws}]
      s1 == IF has(s0.players, playerId)
            THEN [s0 EXCEPT !.players[indexOf(s0.players, playerId)].connected = FALSE]
            ELSE s0
      s2 == [s1 EXCEPT !.webSockets[playerId] = NoHandle]
      s3 == saveState(s2)
  IN  broadcast(s3, [type |-> "player_disconnected", data |-> [playerId |-> playerId]])

\* startRound(roundNumber) with the country getRandomCountry() returns and the
\* time Date.now() returns
\* mutant of startRound: the round gets no timer
startRound_noTimer(s, roundNumber, country, nowMs) ==
  LET s1 == [s EXCEPT !.gameState.currentRound =
                 [number |-> roundNumber, country |-> country,
                  startTime |-> nowMs, answers |-> <<>>]]
      s2 == [s1 EXCEPT !.gameState.status = "playing"]
  IN  broadcast(s2, [type |-> "flag",
                 data |-> [flagEmoji |-> country.code, roundNumber |-> roundNumber,
                           totalRounds |-> s2.gameState.totalRounds,
                           startTime |-> s2.gameState.currentRound.startTime]])

startRound(s, roundNumber, country, nowMs) ==
  LET s1 == [s EXCEPT !.gameState.currentRound =
                 [number |-> roundNumber, country |-> country,
                  startTime |-> nowMs, answers |-> <<>>]]
      s2 == [s1 EXCEPT !.gameState.status = "playing"]
      s3 == broadcast(s2, [type |-> "flag",
                 data |-> [flagEmoji |-> country.code, roundNumber |-> roundNumber,
                           totalRounds |-> s2.gameState.totalRounds,
                           startTime |-> s2.gameState.currentRound.startTime]])
  IN  [s3 EXCEPT !.roundTimeoutId = s.nextTimer,
                 !.timers = @ \cup {s.nextTimer},
                 !.nextTimer = @ + 1]

\* the message endGame() broadcasts; winner is leaderboard[0], which is
\* undefined (here the empty sequence) for an empty leaderboard
gameEndedMessage(s) ==
  LET leaderboard == calculateLeaderboard(s.players)
  IN  [type |-> "game_ended",
       data |-> [winner |-> IF leaderboard = <<>> THEN <<>> ELSE <<leaderboard[1]>>,
                 leaderboard |-> leaderboard]]

endGame(s) ==
  IF s.gameState.status = "finished" THEN s
  ELSE
    LET s1 == [s EXCEPT !.gameState.status = "finished"]
    IN  broadcast(s1, gameEndedMessage(s1))

\* totalScore += roundScore for every score whose player is in the roster
RECURSIVE creditScores(_, _)
creditScores(ps, scores) ==
  IF scores = <<>> THEN ps
  ELSE LET score == Head(scores)
           ps1 == IF has(ps, score.playerId)
                  THEN [ps EXCEPT ![indexOf(ps, score.playerId)].totalScore = @ + score.roundScore]
                  ELSE ps
       IN  creditScores(ps1, Tail(scores))

\* mutant of clearRoundTimeout: the id is forgotten, the timer is not cleared
clearRoundTimeout_onlyForgets(s) ==
  [s EXCEPT !.roundTimeoutId = NoTimer]

\* mutant of clearRoundTimeout: nothing is cleared and the id is kept
clearRoundTimeout_skipped(s) == s

\* endRound(): clearTimeout(this.roundTimeoutId)
clearRoundTimeout(s) ==
  IF s.roundTimeoutId # NoTimer
  THEN [s EXCEPT !.timers = @ \ {s.roundTimeoutId}, !.roundTimeoutId = NoTimer]
  ELSE s

\* endRound() behind its guards, up to its inter-round delay: the status, the
\* scores, the totals, the save and the round_result broadcast
scoreRound(s) ==
  LET s2 == [s EXCEPT !.gameState.status = "round_ended"]
      scores == evaluateRound(s2.gameState.currentRound.answers,
                              s2.gameState.currentRound.country,
                              s2.gameState.currentRound.startTime)
      s3 == [s2 EXCEPT !.players = creditScores(@, scores)]
      s4 == saveState(s3)
      s5 == broadcast(s4, [type |-> "round_result",
                data |-> [correctAnswer |-> s4.gameState.currentRound.country.name,
                          correctFlag |-> s4.gameState.currentRound.country.code,
                          scores |-> scores,
                          leaderboard |-> calculateLeaderboard(s4.players)]])
  IN  [s5 EXCEPT !.delayTasks = @ + 1]

\* mutants of endRound: without the guard on the status, and without the
\* clearTimeout
endRound_noGuard(s) ==
  IF s.gameState.currentRound = Null THEN s
  ELSE scoreRound(clearRoundTimeout(s))

endRound_noClear(s) ==
  IF s.gameState.currentRound = Null THEN s
  ELSE IF s.gameState.status = "round_ended" \/ s.gameState.status = "finished" THEN s
  ELSE scoreRound(s)

\* endRound() up to its inter-round delay
endRound(s) ==
  IF s.gameState.currentRound = Null THEN s
  ELSE IF s.gameState.status = "round_ended" \/ s.gameState.status = "finished" THEN s
  ELSE scoreRound(clearRoundTimeout(s))

\* mutant of handlePlayerAnswer: without the check for a recorded answer
handlePlayerAnswer_noDupCheck(s, playerId, answer, nowMs) ==
  IF s.gameState.currentRound = Null THEN s
  ELSE
    LET s1 == [s EXCEPT !.gameState.currentRound.answers =
                   Append(@, [playerId |-> playerId, answer |-> answer, timestamp |-> nowMs])]
        s2 == saveState(s1)
    IN  IF Len(s2.gameState.currentRound.answers) = Len(s2.players)
        THEN endRound(s2)
        ELSE s2

\* handlePlayerAnswer(playerId, answer) up to the delay of the endRound() it may
\* call, with the time Date.now() returns
handlePlayerAnswer(s, playerId, answer, nowMs) ==
  IF s.gameState.currentRound = Null THEN s
  ELSE IF answersHas(s.gameState.currentRound.answers, playerId) THEN s
  ELSE
    LET s1 == [s EXCEPT !.gameState.currentRound.answers =
                   Append(@, [playerId |-> playerId, answer |-> answer, timestamp |-> nowMs])]
        s2 == saveState(s1)
    IN  IF Len(s2.gameState.currentRound.answers) = Len(s2.players)
        THEN endRound(s2)
        ELSE s2

\* mutant of startGame: without the guard on the status
startGame_noGuard(s) ==
  LET s1 == [s EXCEPT !.gameState.status = "countdown"]
      s2 == broadcast(s1, [type |-> "countdown", data |-> [count |-> CountdownFrom]])
  IN  [s2 EXCEPT !.startTasks = Append(@, CountdownFrom)]

\* mutant of startGame: the guard lets a call pass while the countdown runs
startGame_guardPlaying(s) ==
  IF s.gameState.status \notin {"waiting", "countdown"} THEN s
  ELSE startGame_noGuard(s)

\* startGame() up to its first countdown delay
startGame(s) ==
  IF s.gameState.status # "waiting" THEN s
  ELSE
    LET s1 == [s EXCEPT !.gameState.status = "countdown"]
        s2 == broadcast(s1, [type |-> "countdown", data |-> [count |-> CountdownFrom]])
    IN  [s2 EXCEPT !.startTasks = Append(@, CountdownFrom)]


\* mutant of startGameResume: round 1 starts without the go tick
startGameResume_noGo(s, k, country, nowMs) ==
  LET i == s.startTasks[k] - 1
  IN  IF i > 0
      THEN [broadcast(s, [type |-> "countdown", data |-> [count |-> i]])
              EXCEPT !.startTasks[k] = i]
      ELSE startRound([s EXCEPT !.startTasks = RemoveAt(@, k)], 1, country, nowMs)

\* startGame() from the end of a countdown delay, for the suspended call k: the
\* next tick and delay, or the go tick and startRound(1)
startGameResume(s, k, country, nowMs) ==
  LET i == s.startTasks[k] - 1
  IN  IF i > 0
      THEN [broadcast(s, [type |-> "countdown", data |-> [count |-> i]])
              EXCEPT !.startTasks[k] = i]
      ELSE LET s1 == [s EXCEPT !.startTasks = RemoveAt(@, k)]
               s2 == broadcast(s1, [type |-> "countdown", data |-> [count |-> 0]])
           IN  startRound(s2, 1, country, nowMs)

\* mutant of endRoundResume: the next round gets the number of the last one
endRoundResume_sameRound(s, country, nowMs) ==
  LET s1 == [s EXCEPT !.delayTasks = @ - 1]
  IN  IF s1.gameState.currentRound.number < s1.gameState.totalRounds
      THEN startRound(s1, s1.gameState.currentRound.number, country, nowMs)
      ELSE endGame(s1)

\* endRound() from the end of its inter-round delay
endRoundResume(s, country, nowMs) ==
  LET s1 == [s EXCEPT !.delayTasks = @ - 1]
  IN  IF s1.gameState.currentRound.number < s1.gameState.totalRounds
      THEN startRound(s1, s1.gameState.currentRound.number + 1, country, nowMs)
      ELSE endGame(s1)

\* ====================================================================== fetch
\* Each route of fetch(request): the state it leaves and the response it sends
\* once its handler has returned.
OK == [status |-> 200, success |-> TRUE]

\* POST /initialize
fetchInitialize(s, hostId, hostName) ==
  [state |-> initialize(s, hostId, hostName), response |-> OK]

\* POST /join
fetchJoin(s, playerId, playerName) ==
  [state |-> addPlayer(s, playerId, playerName), response |-> OK]

\* POST /start
fetchStart(s) == [state |-> startGame(s), response |-> OK]

\* POST /answer
fetchAnswer(s, playerId, answer, nowMs) ==
  [state |-> handlePlayerAnswer(s, playerId, answer, nowMs), response |-> OK]

\* GET /status
fetchStatus(s) ==
  IF ~isInitialized(s)
  THEN [state |-> s, response |-> [status |-> 404, success |-> FALSE]]
  ELSE [state |-> s,
        response |-> [status |-> 200, success |-> TRUE,
                      players |-> s.players,
                      gameState |-> JSONstringify(s.gameState)]]

\* webSocketMessage(ws, message) for the message types 'answer' and 'start'
webSocketMessage(s, ws, type, answer, nowMs) ==
  IF type = "answer" THEN handlePlayerAnswer(s, ws.tag, answer, nowMs)
  ELSE IF type = "start" THEN startGame(s)
  ELSE s

\* =================================================================== actions
InitialGameState == [status |-> "waiting", currentRound |-> Null, totalRounds |-> TotalRounds]

InitLobby ==
  /\ players = <<>>
  /\ webSockets = [p \in Ids |-> NoHandle]
  /\ gameState = InitialGameState
  /\ roundTimeoutId = NoTimer
  /\ storage = [keys |-> {}, lobbyId |-> 0, hostId |-> NoId,
                players |-> <<>>, gameState |-> InitialGameState]
  /\ timers = {}
  /\ nextTimer = 1
  /\ accepted = {}
  /\ nextHandle = 1
  /\ startTasks = <<>>
  /\ delayTasks = 0
  /\ log = <<>>

Init ==
  /\ InitLobby
  /\ call = NoCall
  /\ ret = NotReturned

\* the values Date.now() returns: the epoch when a round starts, and the
\* start of the current round plus the elapsed time when an answer is received
StartTimes == {EpochMs}
receivedAt(sub) == gameState.currentRound.startTime + sub.elapsed

Initialize(hostId, hostName) ==
  /\ storage.lobbyId < MaxInits
  /\ Commit(fetchInitialize(S, hostId, hostName).state)

Join(playerId, playerName) ==
  Commit(fetchJoin(S, playerId, playerName).state)

\* GET with Upgrade: websocket
Connect(playerId) ==
  /\ nextHandle <= MaxHandles
  /\ Commit(handleWebSocketUpgrade(S, playerId).state)

\* the runtime reports the close of an accepted socket
Close(ws) ==
  /\ ws \in accepted
  /\ Commit(webSocketClose(S, ws))

FetchStart ==
  /\ Len(log) < MaxLog
  /\ Commit(fetchStart(S).state)

WsStart(ws) ==
  /\ ws \in accepted
  /\ Len(log) < MaxLog
  /\ Commit(webSocketMessage(S, ws, "start", <<>>, 0))

\* a countdown delay of a suspended startGame() elapses
CountdownStep(k, country, nowMs) ==
  /\ k \in 1..Len(startTasks)
  /\ Len(log) < MaxLog - 1
  /\ nextTimer <= MaxTimers
  /\ Commit(startGameResume(S, k, country, nowMs))

FetchAnswer(playerId, sub) ==
  /\ Len(log) < MaxLog
  /\ Commit(fetchAnswer(S, playerId, sub.answer, receivedAt(sub)).state)

WsAnswer(ws, sub) ==
  /\ ws \in accepted
  /\ Len(log) < MaxLog
  /\ Commit(webSocketMessage(S, ws, "answer", sub.answer, receivedAt(sub)))

\* a round timer fires: () => this.endRound()
TimerFire(t) ==
  /\ t \in timers
  /\ Len(log) < MaxLog
  /\ Commit(endRound([S EXCEPT !.timers = @ \ {t}]))

\* the inter-round delay of a suspended endRound() elapses
DelayDone(country, nowMs) ==
  /\ delayTasks > 0
  /\ Len(log) < MaxLog
  /\ nextTimer <= MaxTimers + 1
  /\ Commit(endRoundResume(S, country, nowMs))

Next ==
  \/ \E hostId \in HostIds, hostName \in HostNames : Initialize(hostId, hostName)
  \/ \E playerId \in Ids, playerName \in JoinNames : Join(playerId, playerName)
  \/ \E playerId \in ConnectIds \cup {NoId} : Connect(playerId)
  \/ \E ws \in accepted : Close(ws)
  \/ FetchStart
  \/ \E ws \in accepted : WsStart(ws)
  \/ \E k \in 1..Len(startTasks), c \in 1..Len(countries), nowMs \in StartTimes :
       CountdownStep(k, countries[c], nowMs)
  \/ \E playerId \in Ids, sub \in Submissions : FetchAnswer(playerId, sub)
  \/ \E ws \in accepted, sub \in Submissions : WsAnswer(ws, sub)
  \/ \E t \in timers : TimerFire(t)
  \/ \E c \in 1..Len(countries), nowMs \in StartTimes : DelayDone(countries[c], nowMs)

Spec == Init /\ [][Next]_vars

\* ================================================= wake-up and failing writes
\* loadState(): the stored players and gameState, where there are any, replace
\* the fields.  JSON.parse returns what JSON.stringify wrote, so the answers of
\* the loaded round are those of the stored text (an empty object).
loadState(s) ==
  LET s1 == IF "players" \in s.storage.keys
            THEN [s EXCEPT !.players = s.storage.players]
            ELSE s
  IN  IF "gameState" \in s1.storage.keys
      THEN [s1 EXCEPT !.gameState = s1.storage.gameState]
      ELSE s1

\* the constructor when the object wakes up after an eviction: the fields get
\* their initial values, the timers and the suspended calls of the evicted
\* object are gone, and loadState() runs before any event is delivered
constructor(s) ==
  loadState([s EXCEPT !.players = <<>>,
                      !.webSockets = [p \in Ids |-> NoHandle],
                      !.gameState = InitialGameState,
                      !.roundTimeoutId = NoTimer,
                      !.timers = {},
                      !.startTasks = <<>>,
                      !.delayTasks = 0])

\* the keys saveState() puts, in the order of its puts
SavedKeys == <<"players", "gameState">>

\* saveState() when its put of the given key rejects: the puts before it are
\* stored, and the exception leaves saveState() and its caller
saveStateRejected(s, key) ==
  IF key = SavedKeys[1] THEN s
  ELSE [s EXCEPT !.storage.keys = @ \cup {SavedKeys[1]},
                 !.storage.players = s.players]

\* addPlayer() when a put of its saveState() rejects: the roster is set, the
\* exception skips the broadcast, and fetch() rejects
addPlayerRejected(s, playerId, playerName, key) ==
  LET player == [id |-> playerId, name |-> playerName, connected |-> FALSE, totalScore |-> 0]
      s1 == [s EXCEPT !.players = mapSet(@, playerId, player)]
  IN  saveStateRejected(s1, key)

\* endRound() when a put of its saveState() rejects: the timer is cleared, the
\* status and the totals are set, and the exception skips the broadcast, the
\* delay and the next round
endRoundRejected(s, key) ==
  IF s.gameState.currentRound = Null THEN s
  ELSE IF s.gameState.status = "round_ended" \/ s.gameState.status = "finished" THEN s
  ELSE
    LET s1 == clearRoundTimeout(s)
        s2 == [s1 EXCEPT !.gameState.status = "round_ended"]
        scores == evaluateRound(s2.gameState.currentRound.answers,
                                s2.gameState.currentRound.country,
                                s2.gameState.currentRound.startTime)
        s3 == [s2 EXCEPT !.players = creditScores(@, scores)]
    IN  saveStateRejected(s3, key)


\* ============================================================ concurrent joins
\* create and joins of pairwise different new identities, delivered to the
\* object in any order
JoinIds == {"p2", "p3", "p4", "p5"}

JoinNew(playerId, playerName) ==
  /\ ~has(players, playerId)
  /\ Join(playerId, playerName)

NextJoin ==
  \/ \E hostId \in HostIds, hostName \in HostNames : Initialize(hostId, hostName)
  \/ \E playerId \in JoinIds, playerName \in JoinNames : JoinNew(playerId, playerName)

SpecJoin == Init /\ [][NextJoin]_vars

\* ==================================================================== timers
\* The runtime runs the callback of every setTimeout whose time has come: a
\* countdown delay, a round timer and an inter-round delay that are pending
\* elapse at some time.  The session is created once, players join once, and
\* requests and sockets come and go as they like.
CountdownElapses ==
  \E k \in 1..Len(startTasks), c \in 1..Len(countries), nowMs \in StartTimes :
    CountdownStep(k, countries[c], nowMs)

RoundTimerFires == \E t \in timers : TimerFire(t)

DelayElapses ==
  \E c \in 1..Len(countries), nowMs \in StartTimes : DelayDone(countries[c], nowMs)

NextFair ==
  \/ \E hostId \in HostIds, hostName \in HostNames :
       ~isInitialized(S) /\ Initialize(hostId, hostName)
  \/ \E playerId \in ConnectIds, playerName \in JoinNames : JoinNew(playerId, playerName)
  \/ \E playerId \in ConnectIds : Connect(playerId)
  \/ \E ws \in accepted : Close(ws)
  \/ FetchStart
  \/ CountdownElapses
  \/ \E playerId \in Ids, sub \in Submissions : FetchAnswer(playerId, sub)
  \/ RoundTimerFires
  \/ DelayElapses

\* ENABLED <<RoundTimerFires>>_vars: a timer is pending (firing removes it)
RoundTimerPending == timers # {} /\ Len(log) < MaxLog

\* WF_vars(RoundTimerFires) with its ENABLED written out
RoundTimerFairness ==
  []<>(~RoundTimerPending) \/ []<><<RoundTimerFires>>_vars

SpecFair ==
  /\ Init
  /\ [][NextFair]_vars
  /\ WF_vars(CountdownElapses)
  /\ RoundTimerFairness
  /\ WF_vars(DelayElapses)

\* ============================================= the functions of the game logic
\* Calls of calculateScore, calculateLeaderboard and of the send loop of
\* broadcast with arguments of their whole domains, on a lobby that stays as
\* constructed.
RosterIds == <<"p1", "p2", "p3", "p4", "p5", "p6">>
RosterNames == <<"Ann", "Bob", "Cat", "Dan", "Eve", "Fay">>
\* totalScores of 100, 400 and 500 points
Totals == {10000, 40000, 50000}

Rosters ==
  UNION { { [i \in 1..n |-> [id |-> RosterIds[i], name |-> RosterNames[i],
                             connected |-> FALSE, totalScore |-> f[i]]] :
            f \in [1..n -> Totals] } : n \in 0..MaxRoster }

\* the entries of this.webSockets in insertion order
Registries ==
  { [i \in 1..n |-> [playerId |-> RosterIds[i], ws |-> i]] : n \in 0..MaxSockets }

CalculateScoreCalls ==
  { [fn |-> "calculateScore", isCorrect |-> b, responseTimeMs |-> 500 * k] :
      b \in BOOLEAN, k \in (0 - MaxSkewSteps)..MaxLateSteps }

CalculateLeaderboardCalls ==
  { [fn |-> "calculateLeaderboard", players |-> r] : r \in Rosters }

\* the targets of isAnswerCorrect: an entry of the list, an entry without the
\* alternate_names field and an entry whose alternate_names is empty
TargetCountries ==
  { countries[1],
    [name |-> <<"C", "a", "n", "a", "d", "a">>, code |-> "ca"],
    [name |-> <<"C", "a", "n", "a", "d", "a">>, code |-> "ca",
     alternate_names |-> <<>>] }

\* answers without padding: names, alternates, other spellings of them, parts
\* of them, the empty string
AnswerCores ==
  { <<"F", "r", "a", "n", "c", "e">>, <<"F", "R", "A", "N", "C", "E">>,
    <<"f", "R", "a", "N", "c", "E">>, <<"F", "R", "A">>, <<"f", "r", "a">>,
    <<"F", "r", "a", "n">>, <<"r", "a", "n", "c", "e">>, <<"F", "r">>,
    <<"F", "r", "a", " ", "n", "c", "e">>, <<"F", "r", "a", "n", "c", "e", "e">>,
    <<"C", "a", "n", "a", "d", "a">>, <<"c", "A", "N", "A", "D", "A">>,
    <<"C", "A", "N">>, <<"C", "a", "n", "a", "d">>, <<>> }

\* whitespace before and after an answer
Paddings == { <<>>, <<" ">>, <<"\t", "\n">>, <<" ", " ", " ">> }

IsAnswerCorrectCalls ==
  { [fn |-> "isAnswerCorrect", answer |-> pre \o core \o post, country |-> c] :
      pre \in Paddings, core \in AnswerCores, post \in Paddings,
      c \in TargetCountries }

BroadcastCalls ==
  UNION { { [fn |-> "broadcast", entries |-> e, failing |-> f] :
            f \in SUBSET {e[i].ws : i \in 1..Len(e)} } : e \in Registries }

\* mutant of broadcastSends: without the try/catch around ws.send
RECURSIVE broadcastSends_noCatch(_, _)
broadcastSends_noCatch(entries, failing) ==
  IF entries = <<>> THEN [attempted |-> <<>>, delivered |-> <<>>, raised |-> FALSE]
  ELSE IF Head(entries).ws \in failing
       THEN [attempted |-> <<Head(entries).ws>>, delivered |-> <<>>, raised |-> TRUE]
       ELSE LET rest == broadcastSends_noCatch(Tail(entries), failing)
            IN  [attempted |-> <<Head(entries).ws>> \o rest.attempted,
                 delivered |-> <<Head(entries).ws>> \o rest.delivered,
                 raised |-> rest.raised]

\* the loop of broadcast(message): ws.send(payload) in a try/catch for every
\* entry of the registry; failing holds the handles whose send throws.  The
\* result: the handles send was called on, those it succeeded on, and whether
\* an exception left broadcast().
RECURSIVE broadcastSends(_, _)
broadcastSends(entries, failing) ==
  IF entries = <<>> THEN [attempted |-> <<>>, delivered |-> <<>>, raised |-> FALSE]
  ELSE LET rest == broadcastSends(Tail(entries), failing)
           ws == Head(entries).ws
       IN  [attempted |-> <<ws>> \o rest.attempted,
            delivered |-> IF ws \in failing THEN rest.delivered
                          ELSE <<ws>> \o rest.delivered,
            raised |-> rest.raised]

lobbyVars == <<players, webSockets, gameState, roundTimeoutId, storage, timers,
               nextTimer, accepted, nextHandle, startTasks, delayTasks, log>>

InitLogic ==
  /\ InitLobby
  /\ call \in CalculateScoreCalls \cup CalculateLeaderboardCalls \cup BroadcastCalls
              \cup IsAnswerCorrectCalls
  /\ ret = NotReturned

\* the call returns
Return(value) ==
  /\ ~ret.done
  /\ ret' = [done |-> TRUE, value |-> value]
  /\ UNCHANGED <<call, lobbyVars>>

CallCalculateScore ==
  /\ call.fn = "calculateScore"
  /\ Return(calculateScore(call.isCorrect, call.responseTimeMs))

CallCalculateLeaderboard ==
  /\ call.fn = "calculateLeaderboard"
  /\ Return(calculateLeaderboard(call.players))

CallBroadcast ==
  /\ call.fn = "broadcast"
  /\ Return(broadcastSends(call.entries, call.failing))

CallIsAnswerCorrect ==
  /\ call.fn = "isAnswerCorrect"
  /\ Return(isAnswerCorrect(call.answer, call.country))

NextLogic ==
  \/ CallCalculateScore
  \/ CallCalculateLeaderboard
  \/ CallBroadcast
  \/ CallIsAnswerCorrect

SpecLogic == InitLogic /\ [][NextLogic]_vars

\* ==================================================================== claims
status == gameState.status
currentRound == gameState.currentRound
answers == gameState.currentRound.answers

\* number of events of a type that were broadcast in a round
CountEvents(type, round) ==
  Cardinality({i \in 1..Len(log) : log[i].type = type /\ log[i].round = round})

\* the rounds of the events of a type, in the order of their broadcast
RECURSIVE RoundsOf(_, _)
RoundsOf(type, l) ==
  IF l = <<>> THEN <<>>
  ELSE IF Head(l).type = type THEN <<Head(l).round>> \o RoundsOf(type, Tail(l))
       ELSE RoundsOf(type, Tail(l))

\* round n has ended
RoundEnded(n) ==
  \/ currentRound.number > n
  \/ currentRound.number = n /\ status \in {"round_ended", "finished"}

totalScoreOf(ps, id) == get(ps, id).totalScore

\* the changes of GameState.status of the lifecycle
Transitions ==
  { <<"waiting", "countdown">>, <<"countdown", "playing">>,
    <<"playing", "round_ended">>, <<"round_ended", "playing">>,
    <<"round_ended", "finished">> }

\* the counts of the countdown ticks, in the order of their broadcast
RECURSIVE CountsOf(_)
CountsOf(l) ==
  IF l = <<>> THEN <<>>
  ELSE IF Head(l).type = "countdown" THEN <<Head(l).count>> \o CountsOf(Tail(l))
       ELSE CountsOf(Tail(l))

\* C1: every ended round has exactly one round_result broadcast and no other
\* round has one; once the round has ended, endRound() and any answer
\* submission leave the totals and the broadcasts as they are; and a step that
\* raises a totalScore is the one that ends a round being played and
\* broadcasts its round_result, so no round credits a player twice.
C1_StateOk ==
  /\ \A n \in 0..TotalRounds :
       CountEvents("round_result", n) = IF n > 0 /\ RoundEnded(n) THEN 1 ELSE 0
  /\ status \in {"round_ended", "finished"} =>
       /\ endRound(S) = S
       /\ \A t \in timers : endRound([S EXCEPT !.timers = @ \ {t}]) = S
       /\ \A id \in Ids, sub \in Submissions :
            LET r == handlePlayerAnswer(S, id, sub.answer, receivedAt(sub))
            IN  r.players = players /\ r.log = log /\ r.delayTasks = delayTasks

C1_CreditStep ==
  (\E id \in Ids : /\ has(players, id) /\ has(players', id)
                   /\ totalScoreOf(players', id) > totalScoreOf(players, id))
  => /\ status = "playing" /\ status' = "round_ended"
     /\ gameState'.currentRound.number = currentRound.number
     /\ log' = Append(log, [type |-> "round_result", round |-> currentRound.number,
                            count |-> 0])

\* C1: every state satisfies C1_StateOk and every step C1_CreditStep.
C1_EndRoundOnce == []C1_StateOk /\ [][C1_CreditStep]_vars

\* a round has ended by its timer with a score credited, and the answer that
\* completes the set arrived afterwards, so endRound() was called a second time
C1_Witness ==
  /\ status = "round_ended"
  /\ currentRound.number = 1
  /\ Len(players) = 2 /\ Len(answers) = 2
  /\ totalScoreOf(players, answers[1].playerId) > 0
  /\ totalScoreOf(players, answers[2].playerId) = 0
  /\ isAnswerCorrect(answers[2].answer, currentRound.country)
  /\ CountEvents("round_result", 1) = 1


\* C2: the round-start events broadcast so far are those of the rounds 1, 2,
\* ..., currentRound.number, each once and in this order; the round number
\* never exceeds totalRounds (3); game_ended has been broadcast exactly once
\* if status is finished and never otherwise; and the game is finished only
\* in round totalRounds, after the round_result of each of the rounds.
C2_RoundProgression ==
  /\ gameState.totalRounds = TotalRounds
  /\ currentRound.number \in 0..gameState.totalRounds
  /\ RoundsOf("flag", log) = [i \in 1..currentRound.number |-> i]
  /\ Cardinality({i \in 1..Len(log) : log[i].type = "game_ended"})
       = IF status = "finished" THEN 1 ELSE 0
  /\ status = "finished" =>
       /\ currentRound.number = gameState.totalRounds
       /\ RoundsOf("round_result", log) = [i \in 1..gameState.totalRounds |-> i]
       /\ log[Len(log)].type = "game_ended"

\* the game is finished after a round that all players answered and a round
\* that its timer ended
C2_Witness ==
  /\ status = "finished"
  /\ Len(players) = 2
  /\ Len(answers) < 2
  /\ \E id \in Ids : has(players, id) /\ totalScoreOf(players, id) > 0

C4_FirstAnswerWins ==
  /\ \A i, j \in 1..Len(answers) : answers[i].playerId = answers[j].playerId => i = j
  /\ \A id \in Ids, sub \in Submissions :
       answersHas(answers, id) =>
         handlePlayerAnswer(S, id, sub.answer, receivedAt(sub)) = S

\* a round is being played in which one of two players has answered, and a
\* submission with another text and another time is at hand
C4_Witness ==
  /\ status = "playing"
  /\ Len(players) = 2 /\ Len(answers) = 1
  /\ has(players, answers[1].playerId)
  /\ \E sub \in Submissions :
       sub.answer # answers[1].answer /\ receivedAt(sub) # answers[1].timestamp

\* C5: every pending round timer is the one of the round being played, held
\* in roundTimeoutId; and when a round is being played and a submission
\* completes the set of answers, the handler ends the round in the same run:
\* status is round_ended, the round_result of the round is broadcast, and the
\* round's timer is neither pending nor held any more.
C5_EarlyCompletion ==
  /\ \A t \in timers : t = roundTimeoutId /\ t < nextTimer /\ status = "playing"
  /\ \A id \in Ids, sub \in Submissions :
       ( /\ status = "playing"
         /\ ~answersHas(answers, id)
         /\ Len(answers) + 1 = Len(players) )
       => LET r == handlePlayerAnswer(S, id, sub.answer, receivedAt(sub))
          IN  /\ r.gameState.status = "round_ended"
              /\ r.gameState.currentRound.number = currentRound.number
              /\ r.timers = {}
              /\ r.roundTimeoutId = NoTimer
              /\ r.delayTasks = delayTasks + 1
              /\ r.log = Append(log, [type |-> "round_result",
                                      round |-> currentRound.number, count |-> 0])

\* the last missing answer of a round of two players is about to arrive while
\* the round's timer is pending
C5_Witness ==
  /\ status = "playing"
  /\ Len(players) = 2 /\ Len(answers) = 1
  /\ timers = {roundTimeoutId}
  /\ currentRound.number = 2


\* C6: in every step, every player of the roster stays in it with a totalScore
\* that is at least 0 and at least what it was, and a totalScore changes only
\* in the step of endRound() that ends the round being played.
C6_ScoreOnlyGrows ==
  [][\A id \in Ids :
       has(players, id) =>
         /\ has(players', id)
         /\ totalScoreOf(players', id) >= 0
         /\ totalScoreOf(players', id) >= totalScoreOf(players, id)
         /\ totalScoreOf(players', id) # totalScoreOf(players, id)
              => status = "playing" /\ gameState'.status = "round_ended"]_vars

\* C7: join with the identity of a known player leaves the roster as it is:
\* the same players in the same order with the same name, connected flag and
\* totalScore.
C7_RejoinNoOp ==
  \A id \in Ids, name \in JoinNames :
    has(players, id) => fetchJoin(S, id, name).state.players = players

\* C8: closing a socket and opening a new one for its identity change neither
\* a totalScore nor GameState; and when a round is being played and a player
\* of the roster does so, the player has the same totalScore afterwards and a
\* first submission is recorded as the one answer of the player exactly if
\* the player had no answer before, while every further one changes nothing.
C8_Reconnection ==
  /\ \A ws \in accepted :
       /\ webSocketClose(S, ws).gameState = gameState
       /\ \A id \in Ids : has(players, id) =>
            /\ has(webSocketClose(S, ws).players, id)
            /\ totalScoreOf(webSocketClose(S, ws).players, id) = totalScoreOf(players, id)
  /\ \A id \in ConnectIds :
       /\ handleWebSocketUpgrade(S, id).state.gameState = gameState
       /\ \A q \in Ids : has(players, q) =>
            totalScoreOf(handleWebSocketUpgrade(S, id).state.players, q)
              = totalScoreOf(players, q)
  /\ \A ws \in accepted, sub1 \in Submissions, sub2 \in Submissions :
       (status = "playing" /\ has(players, ws.tag)) =>
         LET id == ws.tag
             s1 == webSocketClose(S, ws)
             s2 == handleWebSocketUpgrade(s1, id).state
             new == CHOOSE x \in s2.accepted : x.handle = s2.webSockets[id]
             s3 == webSocketMessage(s2, new, "answer", sub1.answer, receivedAt(sub1))
             s4 == webSocketMessage(s3, new, "answer", sub2.answer, receivedAt(sub2))
             recorded == [playerId |-> id, answer |-> sub1.answer,
                          timestamp |-> receivedAt(sub1)]
         IN  /\ get(s2.players, id).connected
             /\ totalScoreOf(s2.players, id) = totalScoreOf(players, id)
             /\ s2.gameState = gameState
             /\ IF answersHas(answers, id)
                THEN s3 = s2
                ELSE s3.gameState.currentRound.answers = Append(answers, recorded)
             /\ s4.gameState.currentRound.answers = s3.gameState.currentRound.answers

\* a player with a score is connected in a later round that is being played
\* and has not answered it yet, after a first socket of the player was closed
C8_Witness ==
  /\ status = "playing"
  /\ currentRound.number = 2
  /\ \A ws \in accepted : ws.handle # 1
  /\ \E ws \in accepted :
       /\ ws.handle = 2
       /\ has(players, ws.tag)
       /\ get(players, ws.tag).connected
       /\ totalScoreOf(players, ws.tag) > 0
       /\ ~answersHas(answers, ws.tag)

\* C9: a submission made while status is round_ended or finished leaves
\* GameState, and so the recorded answers, and the roster with its totals
\* unchanged.
C9_LateAnswerRejected ==
  status \in {"round_ended", "finished"} =>
    \A id \in Ids, sub \in Submissions :
      LET r == handlePlayerAnswer(S, id, sub.answer, receivedAt(sub))
      IN  r.gameState = gameState /\ r.players = players

\* C10: a start request or message while status is not waiting changes
\* nothing and the request is answered with success; at most one startGame()
\* is suspended in its countdown; the countdown ticks broadcast so far are the
\* first ones of 3, 2, 1, 0; and round 1 has been started once if there is a
\* current round and never otherwise.
C10_StartOnce ==
  /\ status # "waiting" =>
       /\ fetchStart(S) = [state |-> S, response |-> [status |-> 200, success |-> TRUE]]
       /\ \A ws \in accepted : webSocketMessage(S, ws, "start", <<>>, 0) = S
  /\ Len(startTasks) <= 1
  /\ Len(startTasks) = 1 <=> status = "countdown"
  /\ \E k \in 0..(CountdownFrom + 1) :
       CountsOf(log) = [i \in 1..k |-> CountdownFrom + 1 - i]
  /\ CountEvents("flag", 1) = IF currentRound.number >= 1 THEN 1 ELSE 0

\* the countdown of a first start is under way, so that a second start races it
C10_Witness ==
  /\ status = "countdown"
  /\ startTasks = <<2>>
  /\ CountsOf(log) = <<3, 2>>

\* C11: whenever the session has saved a state and no operation is suspended
\* in a delay, the stored players and the stored gameState are the in-memory
\* ones.
C11_PersistedAfterMutation ==
  (startTasks = <<>> /\ delayTasks = 0 /\ "gameState" \in storage.keys)
    => /\ storage.players = players
       /\ storage.gameState = gameState

\* C12: in a created session, saving the state and waking up from what was
\* saved gives the roster and the gameState that were saved: status,
\* totalRounds and the round with its number, country, startTime and recorded
\* answers.
C12_SaveLoadRoundTrip ==
  isInitialized(S) =>
    LET r == constructor(saveState(S))
    IN  /\ r.players = players
        /\ r.gameState = gameState

\* C13: in a created session, at the broadcast of player_joined,
\* player_connected and player_disconnected the stored players and gameState
\* are the in-memory ones; and a step that broadcasts a round start, a
\* round_result or game_ended leaves them equal as well.
C13_PlayerEvents ==
  isInitialized(S) =>
  /\ \A id \in Ids, name \in JoinNames :
       LET r == addPlayer(S, id, name)
       IN  r.storage.players = r.players /\ r.storage.gameState = r.gameState
  /\ \A id \in ConnectIds :
       LET r == handleWebSocketUpgrade(S, id).state
       IN  r.storage.players = r.players /\ r.storage.gameState = r.gameState
  /\ \A ws \in accepted :
       LET r == webSocketClose(S, ws)
       IN  r.storage.players = r.players /\ r.storage.gameState = r.gameState

C13_GameEvents ==
  ( /\ isInitialized(S)
    /\ \E i \in (Len(log) + 1)..Len(log') :
         log'[i].type \in {"flag", "round_result", "game_ended"} )
  => /\ storage'.players = players'
     /\ storage'.gameState = gameState'

\* C13: every state satisfies C13_PlayerEvents and every step C13_GameEvents.
C13_SaveBeforeBroadcast == []C13_PlayerEvents /\ [][C13_GameEvents]_vars

\* C14: in a created session, when a put of saveState() rejects during the
\* join of a new identity or during the end of a round, the roster, the
\* gameState and the broadcasts are those before the operation.
C14_WriteFailureIsFatal ==
  isInitialized(S) =>
    \A k \in 1..Len(SavedKeys) :
      /\ \A id \in Ids, name \in JoinNames :
           ~has(players, id) =>
             LET r == addPlayerRejected(S, id, name, SavedKeys[k])
             IN  r.players = players /\ r.gameState = gameState /\ r.log = log
      /\ LET r == endRoundRejected(S, SavedKeys[k])
         IN  r.players = players /\ r.gameState = gameState /\ r.log = log

\* C15: in a created session, create is not answered with success and leaves
\* the session id, the roster and the gameState as they are.
C15_SecondCreateFails ==
  isInitialized(S) =>
    \A hostId \in HostIds, hostName \in HostNames :
      LET r == fetchInitialize(S, hostId, hostName)
      IN  /\ r.response # OK
          /\ r.state.storage.lobbyId = storage.lobbyId
          /\ r.state.players = players
          /\ r.state.gameState = gameState

\* C16: in a session that was never created, join is not answered with
\* success and leaves the roster as it is.
C16_JoinNeedsCreate ==
  ~isInitialized(S) =>
    \A id \in Ids, name \in JoinNames :
      LET r == fetchJoin(S, id, name)
      IN  r.response # OK /\ r.state.players = players

\* C17: the upgrade request of an identity that is not in the roster is not
\* answered with 101, and it leaves the registry of handles, the accepted
\* sockets and the roster as they are.
C17_ConnectNeedsJoin ==
  \A id \in ConnectIds :
    ~has(players, id) =>
      LET r == handleWebSocketUpgrade(S, id)
      IN  /\ r.response.status # 101
          /\ r.state.webSockets = webSockets
          /\ r.state.accepted = accepted
          /\ r.state.players = players

\* C18: the status query changes nothing; a session is created exactly if
\* initialize() has run; in a created session the query is answered with 200
\* and with the roster and the gameState, and in a session that was never
\* created with 404.
C18_StatusQuery ==
  LET r == fetchStatus(S)
  IN  /\ r.state = S
      /\ isInitialized(S) <=> storage.lobbyId > 0
      /\ IF storage.lobbyId > 0
         THEN /\ r.response.status = 200
              /\ r.response.players = players
              /\ r.response.gameState = gameState
         ELSE r.response.status = 404

\* C19: in a session that was never created, start is not answered with
\* success, and it leaves the gameState (so status waiting and no round), the
\* broadcasts and the suspended calls as they are.
C19_StartNeedsCreate ==
  ~isInitialized(S) =>
    LET r == fetchStart(S)
    IN  /\ r.response # OK
        /\ r.state.gameState = gameState
        /\ r.state.log = log
        /\ r.state.startTasks = startTasks

\* C20: the close of an accepted socket removes the handle of its identity
\* from the registry and sets connected=false for that player, and nothing
\* else changes: the roster keeps every player in its place with the same
\* name and totalScore, the other players keep their connected flag, and the
\* gameState, the timers, the suspended calls and the game events stay.
C20_DisconnectFrame ==
  \A ws \in accepted :
    LET id == ws.tag
        r == webSocketClose(S, ws)
    IN  /\ r.webSockets = [webSockets EXCEPT ![id] = NoHandle]
        /\ r.accepted = accepted \ {ws}
        /\ r.gameState = gameState
        /\ Len(r.players) = Len(players)
        /\ \A i \in 1..Len(players) :
             /\ r.players[i].id = players[i].id
             /\ r.players[i].name = players[i].name
             /\ r.players[i].totalScore = players[i].totalScore
             /\ r.players[i].connected =
                  IF players[i].id = id THEN FALSE ELSE players[i].connected
        /\ r.roundTimeoutId = roundTimeoutId /\ r.timers = timers
        /\ r.startTasks = startTasks /\ r.delayTasks = delayTasks
        /\ r.log = log

\* the socket of a connected player who has a score and a recorded answer is
\* about to close after a round has ended
C20_Witness ==
  /\ status = "round_ended"
  /\ Len(players) = 2
  /\ \E ws \in accepted :
       /\ webSockets[ws.tag] = ws.handle
       /\ has(players, ws.tag)
       /\ get(players, ws.tag).connected
       /\ totalScoreOf(players, ws.tag) > 0
       /\ answersHas(answers, ws.tag)

\* C21: a call of broadcast calls send once on every handle of the registry,
\* in the order of the registry, whichever sends throw; the sends that do not
\* throw succeed; and no exception leaves broadcast, so its caller goes on.
C21_BroadcastIsolatesFailures ==
  (call.fn = "broadcast" /\ ret.done) =>
    /\ ~ret.value.raised
    /\ ret.value.attempted = [i \in 1..Len(call.entries) |-> call.entries[i].ws]
    /\ \A i \in 1..Len(call.entries) :
         Cardinality({j \in 1..Len(ret.value.attempted) :
                        ret.value.attempted[j] = call.entries[i].ws}) = 1
    /\ {ret.value.delivered[j] : j \in 1..Len(ret.value.delivered)}
         = {call.entries[i].ws : i \in 1..Len(call.entries)} \ call.failing
    /\ \A i, j \in 1..Len(ret.value.delivered) :
         ret.value.delivered[i] = ret.value.delivered[j] => i = j

\* a broadcast to three handles has returned, the send on the first of which
\* threw
C21_Witness ==
  /\ call.fn = "broadcast"
  /\ ret.done
  /\ Len(call.entries) = 3
  /\ call.failing = {call.entries[1].ws}
  /\ Len(ret.value.delivered) = 2

\* C27: calculateScore of a correct answer with a response time of 0 or less
\* is 200 points.
C27_NonPositiveTimeFullScore ==
  (call.fn = "calculateScore" /\ ret.done /\ call.isCorrect /\ call.responseTimeMs <= 0)
    => ret.value = BaseScore + MaxBonus

C29_CompetitionRanks ==
  (call.fn = "calculateLeaderboard" /\ ret.done) =>
    LET lb == ret.value
        n == Len(call.players)
    IN  /\ Len(lb) = n
        /\ \A i \in 1..(n - 1) : lb[i].totalScore >= lb[i + 1].totalScore
        /\ \A i \in 1..n :
             lb[i].rank = 1 + Cardinality({j \in 1..n :
                                call.players[j].totalScore > lb[i].totalScore})
        /\ [i \in 1..n |-> lb[i].totalScore] = <<50000, 40000, 40000, 40000, 10000>>
             => [i \in 1..n |-> lb[i].rank] = <<1, 2, 2, 2, 5>>
        /\ (\A i, j \in 1..n : lb[i].totalScore = lb[j].totalScore)
             => \A i \in 1..n : lb[i].rank = 1

\* the leaderboard of a roster with the totals 400, 100, 400, 500, 400 has
\* been computed
C29_Witness ==
  /\ call.fn = "calculateLeaderboard"
  /\ ret.done
  /\ [i \in 1..Len(call.players) |-> call.players[i].totalScore]
       = <<40000, 10000, 40000, 50000, 40000>>
  /\ [i \in 1..Len(ret.value) |-> ret.value[i].rank] = <<1, 2, 2, 2, 5>>

\* C22: in the order of issue, which is the order in which every handle of
\* the registry is sent the events, the round start of a round comes before
\* its round_result, the round_result of a round before the round start of
\* the next one, and game_ended is the last event and comes after the
\* round_result of the last round.
C22_EventOrder ==
  \A i \in 1..Len(log) :
    /\ log[i].type = "round_result" =>
         /\ \E j \in 1..(i - 1) : log[j].type = "flag" /\ log[j].round = log[i].round
         /\ \A j \in 1..Len(log) :
              (log[j].type = "flag" /\ log[j].round <= log[i].round) => j < i
    /\ (log[i].type = "flag" /\ log[i].round > 1) =>
         /\ \E j \in 1..(i - 1) :
              log[j].type = "round_result" /\ log[j].round = log[i].round - 1
         /\ \A j \in 1..Len(log) :
              (log[j].type = "round_result" /\ log[j].round < log[i].round) => j < i
    /\ log[i].type = "game_ended" =>
         /\ i = Len(log)
         /\ \E j \in 1..(i - 1) :
              log[j].type = "round_result" /\ log[j].round = gameState.totalRounds

\* a game has finished with the one socket that was ever opened still in the
\* registry
C22_Witness ==
  /\ status = "finished"
  /\ nextHandle = 2
  /\ \E ws \in accepted : webSockets[ws.tag] = ws.handle
  /\ RoundsOf("round_result", log) = <<1, 2, 3>>

\* C23: start in status waiting sets status=countdown and broadcasts the tick
\* 3; while status is countdown the ticks broadcast are 3, then 3, 2, then
\* 3, 2, 1, each an event of its own, and no round has started; a round start
\* is broadcast only after the ticks 3, 2, 1 and go, behind all of them; and
\* once go is broadcast round 1 has started.
C23_CountdownThenRound ==
  /\ status = "waiting" =>
       LET r == fetchStart(S).state
       IN  /\ r.gameState.status = "countdown"
           /\ r.log = Append(log, [type |-> "countdown", round |-> currentRound.number,
                                   count |-> CountdownFrom])
  /\ status = "countdown" =>
       /\ CountsOf(log) \in {<<3>>, <<3, 2>>, <<3, 2, 1>>}
       /\ Len(log) = Len(CountsOf(log))
       /\ currentRound = Null
  /\ \A j \in 1..Len(log) :
       log[j].type = "flag" =>
         /\ CountsOf(SubSeq(log, 1, j - 1)) = <<3, 2, 1, 0>>
         /\ \A i \in 1..Len(log) : log[i].type = "countdown" => i < j
  /\ CountsOf(log) = <<3, 2, 1, 0>> =>
       /\ status \in {"playing", "round_ended", "finished"}
       /\ CountEvents("flag", 1) = 1

\* round 1 is being played right after the countdown
C23_Witness ==
  /\ status = "playing"
  /\ Len(log) = 5
  /\ CountsOf(log) = <<3, 2, 1, 0>>
  /\ log[5] = [type |-> "flag", round |-> 1, count |-> 0]

\* C24: at most one round timer is pending.
C24_OneTimer == Cardinality(timers) <= 1

\* the timer of a later round is pending after the round before it was ended
\* by the answers of all players
C24_Witness ==
  /\ status = "playing"
  /\ currentRound.number = 2
  /\ timers = {roundTimeoutId}
  /\ Len(players) = 2
  /\ \A i \in 1..Len(players) : players[i].totalScore > 0

\* C25: when endGame() is about to run, the game_ended message it broadcasts
\* has as winner the first entry of its leaderboard, with rank 1 and a
\* totalScore that no player of the roster exceeds, and the leaderboard has
\* one entry for every player of the roster.
C25_WinnerIsTopRanked ==
  (status = "round_ended" /\ delayTasks > 0
     /\ currentRound.number = gameState.totalRounds) =>
    LET m == gameEndedMessage(S).data
    IN  /\ m.winner # <<>>
        /\ m.winner = <<m.leaderboard[1]>>
        /\ m.leaderboard[1].rank = 1
        /\ \A i \in 1..Len(players) :
             m.leaderboard[1].totalScore >= players[i].totalScore
        /\ Len(m.leaderboard) = Len(players)
        /\ \A i \in 1..Len(players) :
             Cardinality({j \in 1..Len(m.leaderboard) :
                            m.leaderboard[j].playerId = players[i].id}) = 1

\* C26: in every order of delivery of create and of the joins of new
\* identities, a join puts its player behind the players of the roster, so
\* none of them is lost; the roster holds the joined identities, and the host
\* once the session is created, each once; and the status query of a created
\* session reports this roster.
C26_NoJoinLost ==
  /\ \A id \in JoinIds, name \in JoinNames :
       ~has(players, id) =>
         fetchJoin(S, id, name).state.players
           = Append(players, [id |-> id, name |-> name, connected |-> FALSE,
                              totalScore |-> 0])
  /\ \A i, j \in 1..Len(players) : players[i].id = players[j].id => i = j
  /\ Len(players) = Cardinality({id \in JoinIds : has(players, id)})
                      + (IF isInitialized(S) THEN 1 ELSE 0)
  /\ isInitialized(S) =>
       /\ \E hostId \in HostIds : has(players, hostId)
       /\ fetchStatus(S).response.status = 200
       /\ fetchStatus(S).response.players = players

\* the session was created and then joined by four new identities
C26_Witness ==
  /\ isInitialized(S)
  /\ Len(players) = 5
  /\ players[1].id \in HostIds
  /\ Len(fetchStatus(S).response.players) = 5

\* C30: the scores of a round are one entry per recorded answer, in the
\* order of the answers, each with the player of its answer, whether the
\* answer is correct, and calculateScore of that and of the time from the
\* start of the round to the answer; a player without an answer has no
\* entry; and the step that ends a round adds to every player's totalScore
\* the roundScore of the player's entry, and nothing for a player without one.
C30_ScoresOfRound ==
  LET scores == evaluateRound(answers, currentRound.country, currentRound.startTime)
  IN  /\ Len(scores) = Len(answers)
      /\ \A i \in 1..Len(answers) :
           /\ scores[i].playerId = answers[i].playerId
           /\ scores[i].isCorrect = isAnswerCorrect(answers[i].answer, currentRound.country)
           /\ scores[i].roundScore =
                calculateScore(scores[i].isCorrect,
                               answers[i].timestamp - currentRound.startTime)
      /\ \A id \in Ids :
           ~answersHas(answers, id) =>
             \A i \in 1..Len(scores) : scores[i].playerId # id

C30_CreditStep ==
  (status = "playing" /\ gameState'.status = "round_ended") =>
    LET round == gameState'.currentRound
        scores == evaluateRound(round.answers, round.country, round.startTime)
    IN  \A id \in Ids :
          has(players, id) =>
            /\ has(players', id)
            /\ totalScoreOf(players', id) =
                 totalScoreOf(players, id)
                 + (IF \E i \in 1..Len(scores) : scores[i].playerId = id
                    THEN scores[CHOOSE i \in 1..Len(scores) : scores[i].playerId = id].roundScore
                    ELSE 0)

\* C30: every state satisfies C30_ScoresOfRound and every step C30_CreditStep.
C30_OneScorePerAnswer == []C30_ScoresOfRound /\ [][C30_CreditStep]_vars

\* round 1 has ended with one recorded answer, a correct one, and the roster
\* has two players, of which only the one who answered has a score
C30_Witness ==
  /\ status = "round_ended"
  /\ currentRound.number = 1
  /\ Len(players) = 2 /\ Len(answers) = 1
  /\ totalScoreOf(players, answers[1].playerId) > 0
  /\ \E id \in Ids : has(players, id) /\ totalScoreOf(players, id) = 0

\* ------------------------------------------------------------------------ C31
\* the accepted names of a country: its name and its alternate names, if any
C31_AcceptedNames(country) ==
  {country.name} \cup
  (IF "alternate_names" \in DOMAIN country
   THEN {country.alternate_names[i] : i \in 1..Len(country.alternate_names)}
   ELSE {})

\* answer is lead whitespace characters, then the characters of name in
\* either case, then whitespace characters to its end
C31_Spells(answer, name, lead) ==
  /\ lead + Len(name) <= Len(answer)
  /\ \A k \in 1..Len(answer) :
       IF k <= lead \/ k > lead + Len(name)
       THEN answer[k] \in Whitespace
       ELSE toLowerCaseChar(answer[k]) = toLowerCaseChar(name[k - lead])

\* C31: isAnswerCorrect returns true exactly when the answer, without the
\* whitespace around it and without regard to case, is the name of the country
\* or one of its alternate names; a part of an accepted name, the empty
\* string, whitespace alone and a name that is not accepted are incorrect,
\* also for a country without alternate names
C31_IsAnswerCorrectExact ==
  (call.fn = "isAnswerCorrect" /\ ret.done) =>
    LET accepted_ == \E name \in C31_AcceptedNames(call.country) :
                       \E lead \in 0..Len(call.answer) :
                         C31_Spells(call.answer, name, lead)
    IN  /\ ret.value = accepted_
        /\ (\A k \in 1..Len(call.answer) : call.answer[k] \in Whitespace)
             => ret.value = FALSE
        /\ (\E name \in C31_AcceptedNames(call.country) :
              Len(trim(call.answer)) < Len(name)) /\
           (\A name \in C31_AcceptedNames(call.country) :
              Len(trim(call.answer)) # Len(name))
             => ret.value = FALSE
        /\ ("alternate_names" \notin DOMAIN call.country
             /\ toLowerCase(trim(call.answer)) = <<"c", "a", "n">>)
             => ret.value = FALSE

\* a padded answer in mixed case was judged correct for a country without
\* alternate names
C31_Witness ==
  /\ call.fn = "isAnswerCorrect"
  /\ ret.done
  /\ "alternate_names" \notin DOMAIN call.country
  /\ call.answer = <<"\t", "\n", "c", "A", "N", "A", "D", "A", " ">>
  /\ ret.value = TRUE

\* ------------------------------------------------------------------------ C39
\* the position in the leaderboard of the player at position i of the roster
C39_PlaceOf(leaderboard, roster, i) ==
  CHOOSE j \in 1..Len(leaderboard) : leaderboard[j].playerId = roster[i].id

\* C39: calculateLeaderboard returns exactly one entry for every player of its
\* input, with the player's identity, display name and totalScore, and players
\* with equal totals are in the order of their insertion into the roster
C39_LeaderboardKeepsPlayers ==
  (call.fn = "calculateLeaderboard" /\ ret.done) =>
    LET roster == call.players
        leaderboard == ret.value
    IN  /\ Len(leaderboard) = Len(roster)
        /\ \A i \in 1..Len(roster) :
             /\ Cardinality({j \in 1..Len(leaderboard) :
                               leaderboard[j].playerId = roster[i].id}) = 1
             /\ LET e == leaderboard[C39_PlaceOf(leaderboard, roster, i)]
                IN  /\ e.playerName = roster[i].name
                    /\ e.totalScore = roster[i].totalScore
        /\ \A i1, i2 \in 1..Len(roster) :
             (i1 < i2 /\ roster[i1].totalScore = roster[i2].totalScore)
               => C39_PlaceOf(leaderboard, roster, i1)
                    < C39_PlaceOf(leaderboard, roster, i2)

\* a roster in ascending order with two pairs of equal totals: the leaderboard
\* reverses the groups and keeps the order within each
C39_Witness ==
  /\ call.fn = "calculateLeaderboard"
  /\ ret.done
  /\ [i \in 1..Len(call.players) |-> call.players[i].totalScore]
       = <<10000, 10000, 40000, 40000, 50000>>
  /\ [i \in 1..Len(ret.value) |-> ret.value[i].playerId]
       = <<"p5", "p3", "p4", "p1", "p2">>

\* ------------------------------------------------------------------------ C32
\* a call of startGame() waits in its countdown or a call of endRound() waits
\* in its inter-round delay
C32_Suspended == startTasks # <<>> \/ delayTasks > 0

\* an operation left the state r with the suspended calls of the current state
C32_StillSuspended(r) ==
  r.startTasks = startTasks /\ r.delayTasks = delayTasks

\* from r every suspended call completes its own transition when its wait is
\* over: the countdown its next tick or round 1, the delay the next round or
\* the end of the game
C32_Resumes(r) ==
  /\ \A k \in 1..Len(r.startTasks), c \in 1..Len(countries), nowMs \in StartTimes :
       LET q == startGameResume(r, k, countries[c], nowMs)
       IN  IF r.startTasks[k] > 1
           THEN /\ q.startTasks[k] = r.startTasks[k] - 1
                /\ q.gameState = r.gameState
                /\ q.log[Len(q.log)].type = "countdown"
           ELSE /\ q.startTasks = RemoveAt(r.startTasks, k)
                /\ q.gameState.status = "playing"
                /\ q.gameState.currentRound.number = 1
                /\ q.roundTimeoutId \in q.timers
  /\ r.delayTasks > 0 =>
       \A c \in 1..Len(countries), nowMs \in StartTimes :
         LET q == endRoundResume(r, countries[c], nowMs)
         IN  /\ q.delayTasks = r.delayTasks - 1
             /\ IF r.gameState.currentRound.number < r.gameState.totalRounds
                THEN /\ q.gameState.status = "playing"
                     /\ q.gameState.currentRound.number
                          = r.gameState.currentRound.number + 1
                     /\ q.roundTimeoutId \in q.timers
                ELSE q.gameState.status = "finished"

C33_ReconnectReplacesHandle ==
  /\ \A playerId \in ConnectIds :
       LET r == handleWebSocketUpgrade(S, playerId).state
       IN  /\ r.webSockets[playerId] = nextHandle
           /\ \A other \in Ids \ {playerId} :
                r.webSockets[other] = webSockets[other]
  /\ \A playerId \in Ids :
       webSockets[playerId] # NoHandle
         => [handle |-> webSockets[playerId], tag |-> playerId] \in accepted
  /\ \A ws \in accepted :
       ws.handle = nextHandle - 1 => webSockets[ws.tag] = ws.handle

\* ------------------------------------------------------------------------ C35
\* C35: a round timer is pending only while the status is playing; every step
\* that leaves playing leaves no timer pending and none held; and clearing a
\* timer that has fired or has been cleared changes nothing but the held id:
\* the endRound() a firing timer runs ends the round as one with a pending
\* timer would
C35_TimerOnlyWhilePlaying ==
  /\ [](/\ status # "playing" => timers = {} /\ roundTimeoutId = NoTimer
        /\ \A t \in timers :
             LET fired == [S EXCEPT !.timers = @ \ {t}]
             IN  /\ clearRoundTimeout(fired) = [fired EXCEPT !.roundTimeoutId = NoTimer]
                 /\ endRound(fired) = endRound(S)
        /\ clearRoundTimeout(clearRoundTimeout(S)) = clearRoundTimeout(S)
        /\ roundTimeoutId = NoTimer => clearRoundTimeout(S) = S)
  /\ [][(status = "playing" /\ status' # "playing")
          => timers' = {} /\ roundTimeoutId' = NoTimer]_vars

\* round 3 was ended by its timer while one of two players had not answered:
\* no timer is pending or held
C35_Witness ==
  /\ status = "round_ended"
  /\ currentRound.number = 3
  /\ Len(players) = 2
  /\ Len(answers) = 1
  /\ storage.gameState.status = "round_ended"
  /\ timers = {}
  /\ roundTimeoutId = NoTimer

\* ------------------------------------------------------------------------ C36
\* C36: a round ends before its timer fires only when every player of the
\* roster has a recorded answer in it; a submission under an identity that is
\* not in the roster never ends a round (stated for a created session)
C36_EarlyEndNeedsAllPlayers ==
  \A playerId \in Ids, sub \in Submissions :
    LET r == fetchAnswer(S, playerId, sub.answer, receivedAt(sub)).state
    IN  (isInitialized(S) /\ status = "playing" /\ r.gameState.status # "playing")
          => /\ has(players, playerId)
             /\ \A i \in 1..Len(r.players) :
                  answersHas(r.gameState.currentRound.answers, r.players[i].id)

\* ------------------------------------------------------------------------ C37
\* C37: a player of the roster is connected exactly when the registry holds a
\* handle for the player's identity
C37_ConnectedIffRegistered ==
  \A i \in 1..Len(players) :
    players[i].connected <=> webSockets[players[i].id] # NoHandle

\* ------------------------------------------------------------------------ C38
\* C38: every identity with a recorded answer in the current round, and every
\* entry of the scores of the round's round_result, belongs to a player of the
\* roster (stated for a created session)
C38_AnswersOfRosterOnly ==
  isInitialized(S) =>
  /\ \A i \in 1..Len(answers) : has(players, answers[i].playerId)
  /\ (currentRound # Null /\ status = "playing") =>
       LET scores == evaluateRound(answers, currentRound.country, currentRound.startTime)
       IN  \A i \in 1..Len(scores) : has(players, scores[i].playerId)

\* ------------------------------------------------------------------------ C34
\* C34: when every pending countdown delay, round timer and inter-round delay
\* elapses at some time, a session whose start() was accepted in the status
\* waiting reaches the status finished, whether or not players answer or are
\* connected
C34_StartedGameFinishes == (status = "countdown") ~> (status = "finished")

\* a game of two players finished although no answer was ever scored and no
\* socket is open
C34_Witness ==
  /\ status = "finished"
  /\ Len(players) = 2
  /\ \A i \in 1..Len(players) : players[i].totalScore = 0 /\ ~players[i].connected
  /\ answers = <<>>
  /\ accepted = {}
  /\ log[Len(log)].type = "game_ended"

====
